---- MODULE Spec2Model ----
(***************************************************************************)
(* Washing Timer Bot (src/src/washing_timer.py): the per-user timer        *)
(* registry `active_timers`, the jobs that handle_time schedules with      *)
(* job_queue.run_once, the handlers that read and change the registry,     *)
(* the expiry callback timer_callback, and the parser                      *)
(* validate_time_format.                                                   *)
(*                                                                         *)
(* The bot runs on one asyncio event loop: a handler runs without          *)
(* interruption between two awaits.  Every handler below touches the       *)
(* registry in a single stretch without an await, so each handler is one   *)
(* action.  A job's expiry has two steps: the scheduler takes the due job  *)
(* out of its store and queues the callback (Expire), and the event loop   *)
(* later runs the callback body (TimerCallback); handlers of user updates  *)
(* may run between the two.                                                *)
(***************************************************************************)
EXTENDS Integers, Sequences, FiniteSets, TLC

\* ------------------------------------------------------------------ constants
\* src/src/washing_timer.py:31
MAX_TIMERS_PER_USER == 10

\* format_timer_list(user_id, page=0, items_per_page=5)
ITEMS_PER_PAGE == 5

\* ------------------------------------------------------------------ bounds
\* number of timers a behaviour may create (jobs scheduled by handle_time)
MaxCreates == 2
\* number of callbacks that may be queued on the event loop and not yet run
MaxQueued == 1
\* the cancel_timer_<id> buttons pressed, and the ids uuid4 may repeat, are
\* the ids 1..MaxPickId (ids are opaque tokens, the first ones stand for all)
MaxPickId == 2
\* pages asked for with timers_page_<n>
MaxPage == 1
\* longest text handed to validate_time_format
MaxLen == 5

Owners == {1, 2}

Digits == {"0", "1", "2", "3", "4", "5", "6", "7", "8", "9"}
\* the characters of the texts handed to the parser: the digits and a letter
Chars == Digits \cup {"a"}

\* the texts users send to handle_time in the behaviours of the bot
TimeInputs == { <<"9", "0">>, <<"0", "2", "0", "0">>, <<"0", "0", "0", "0">> }

VARIABLES
    active_timers,  \* {user_id: {timer_id: {description, end_time, job, created_at}}}
    jobs,           \* the job queue: job -> its data and whether it was taken to run
    now,            \* datetime.now(), in ticks; one tick passes per timer created
    budget,         \* timers this behaviour may still create
    running,        \* FALSE once main() left run_polling and ran its finally block
    lastOp,         \* what the last handler did and answered
    cancelled,      \* queued jobs whose timer an explicit cancel removed (returned True)
    time_str,       \* the parser's argument
    time_data       \* the parser's result

vars == <<active_timers, jobs, now, budget, running, lastOp, cancelled, time_str, time_data>>

\* ------------------------------------------------------------------ helpers
EmptyDict == [k \in {} |-> 0]

Min(S) == CHOOSE x \in S : \A y \in S : x <= y

\* dict.pop(key, None)
Pop(d, key) == [k \in DOMAIN d \ {key} |-> d[k]]

\* d[key] = value
Put(d, key, value) == [k \in DOMAIN d \cup {key} |-> IF k = key THEN value ELSE d[k]]

\* ------------------------------------------------------------------ parser
\* Optional[Tuple[int, int]]: None
None == <<>>
\* time_data before validate_time_format was called
NotCalled == <<-1>>

DigitValue(c) ==
    CASE c = "0" -> 0 [] c = "1" -> 1 [] c = "2" -> 2 [] c = "3" -> 3 [] c = "4" -> 4
      [] c = "5" -> 5 [] c = "6" -> 6 [] c = "7" -> 7 [] c = "8" -> 8 [] c = "9" -> 9

\* re.match(r'^\d+$', time_str)
MatchesDigits(s) == Len(s) >= 1 /\ \A i \in 1..Len(s) : s[i] \in Digits

\* int(s) of a digit string (leading zeros allowed)
RECURSIVE ToInt(_)
ToInt(s) ==
    IF Len(s) = 0 THEN 0
    ELSE 10 * ToInt(SubSeq(s, 1, Len(s) - 1)) + DigitValue(s[Len(s)])

\* mutant: the lower limit of the minutes taken as 0
MinutesInRange_ZeroAllowed(minutes) == 0 <= minutes /\ minutes <= 999

\* 1 <= minutes <= 999
MinutesInRange(minutes) == 1 <= minutes /\ minutes <= 999

\* mutant: the upper limit of the hours taken as 24
HoursInRange_UpTo24(hours) == 0 <= hours /\ hours <= 24

\* 0 <= hours <= 23
HoursInRange(hours) == 0 <= hours /\ hours <= 23

\* 0 <= minutes <= 59
MinuteFieldInRange(minutes) == 0 <= minutes /\ minutes <= 59

\* mutant: the 1-3 digit branch with only the upper limit checked
ParseMinutes_NoLowerLimit(s) ==
    LET minutes == ToInt(s)
    IN  IF minutes > 999 THEN None
        ELSE <<minutes \div 60, minutes % 60>>

\* the 1-3 digit branch: total minutes
ParseMinutes(s) ==
    LET minutes == ToInt(s)
    IN  IF ~MinutesInRange(minutes) THEN None
        ELSE <<minutes \div 60, minutes % 60>>

\* the 4 digit branch: HHMM
ParseHHMM(s) ==
    LET hours   == ToInt(SubSeq(s, 1, 2))
        minutes == ToInt(SubSeq(s, 3, 4))
    IN  IF ~HoursInRange(hours) THEN None
        ELSE IF ~MinuteFieldInRange(minutes) THEN None
        ELSE IF hours = 0 /\ minutes = 0 THEN None
        ELSE <<hours, minutes>>

validate_time_format(s) ==
    IF ~MatchesDigits(s) THEN None
    ELSE IF Len(s) <= 3 THEN ParseMinutes(s)
    ELSE IF Len(s) = 4 THEN ParseHHMM(s)
    ELSE None

\* every text of at most n characters
Texts(n) == UNION { [1..k -> Chars] : k \in 0..n }

\* a text of letters only, handed to the parser besides the texts over Chars
LetterTexts == { <<"a", "b", "c", "d">> }

\* ------------------------------------------------------------------ registry
\* active_timers.setdefault(user_id, {}): the registry after the call
SetDefault(at, user_id) ==
    IF user_id \in DOMAIN at THEN at ELSE Put(at, user_id, EmptyDict)

\* get_user_timers(user_id): the dict it returns (it also leaves SetDefault behind)
get_user_timers(at, user_id) == SetDefault(at, user_id)[user_id]

\* get_timer_count(user_id): len(get_user_timers(user_id))
get_timer_count(at, user_id) == Cardinality(DOMAIN get_user_timers(at, user_id))

\* job.schedule_removal(): takes a job that still waits out of the job queue; on a
\* job the scheduler already took to run it changes nothing (remove_timer catches
\* what it raises)
schedule_removal(js, job) ==
    IF job \in DOMAIN js /\ js[job].state = "scheduled" THEN Pop(js, job) ELSE js

\* if not user_timers: active_timers.pop(user_id, None)
DropIfEmpty(at, user_id) ==
    IF DOMAIN at[user_id] = {} THEN Pop(at, user_id) ELSE at

\* mutant: schedule_removal called outside try/except: what it raises on a job that
\* no longer waits ends remove_timer before the del, and no True is returned
remove_timer_NoTry(st, user_id, timer_id) ==
    LET at1         == SetDefault(st.at, user_id)
        user_timers == at1[user_id]
    IN  IF timer_id \in DOMAIN user_timers
        THEN LET job == user_timers[timer_id].job
                 at2 == [at1 EXCEPT ![user_id] = Pop(user_timers, timer_id)]
             IN  IF job \in DOMAIN st.jobs /\ st.jobs[job].state = "scheduled"
                 THEN [at     |-> DropIfEmpty(at2, user_id),
                       jobs   |-> schedule_removal(st.jobs, job),
                       result |-> TRUE,
                       job    |-> job]
                 ELSE [at |-> at1, jobs |-> st.jobs, result |-> FALSE, job |-> job]
        ELSE [at |-> at1, jobs |-> st.jobs, result |-> FALSE, job |-> 0]

\* mutant: one dict of timers keyed by timer_id alone: the id is deleted for every
\* user who holds it
remove_timer_AnyOwner(st, user_id, timer_id) ==
    LET at1         == SetDefault(st.at, user_id)
        user_timers == at1[user_id]
    IN  IF timer_id \in DOMAIN user_timers
        THEN LET job == user_timers[timer_id].job
                 at2 == [u \in DOMAIN at1 |-> Pop(at1[u], timer_id)]
             IN  [at     |-> DropIfEmpty(at2, user_id),
                  jobs   |-> schedule_removal(st.jobs, job),
                  result |-> TRUE,
                  job    |-> job]
        ELSE [at |-> at1, jobs |-> st.jobs, result |-> FALSE, job |-> 0]

\* mutant: schedule_removal reaches every job of the user (jobs looked up by the
\* user's name prefix), not only the job stored with the timer
remove_timer_CancelsUserJobs(st, user_id, timer_id) ==
    LET at1         == SetDefault(st.at, user_id)
        user_timers == at1[user_id]
    IN  IF timer_id \in DOMAIN user_timers
        THEN LET job  == user_timers[timer_id].job
                 at2  == [at1 EXCEPT ![user_id] = Pop(user_timers, timer_id)]
                 gone == { j \in DOMAIN st.jobs : /\ st.jobs[j].user_id = user_id
                                                  /\ st.jobs[j].state = "scheduled" }
             IN  [at     |-> DropIfEmpty(at2, user_id),
                  jobs   |-> [j \in DOMAIN st.jobs \ gone |-> st.jobs[j]],
                  result |-> TRUE,
                  job    |-> job]
        ELSE [at |-> at1, jobs |-> st.jobs, result |-> FALSE, job |-> 0]

\* remove_timer(user_id, timer_id) on registry st.at and job queue st.jobs: the
\* registry and job queue after the call, its result, and the job it cancelled
remove_timer(st, user_id, timer_id) ==
    LET at1         == SetDefault(st.at, user_id)
        user_timers == at1[user_id]
    IN  IF timer_id \in DOMAIN user_timers
        THEN LET job == user_timers[timer_id].job
                 at2 == [at1 EXCEPT ![user_id] = Pop(user_timers, timer_id)]
             IN  [at     |-> DropIfEmpty(at2, user_id),
                  jobs   |-> schedule_removal(st.jobs, job),
                  result |-> TRUE,
                  job    |-> job]
        ELSE [at |-> at1, jobs |-> st.jobs, result |-> FALSE, job |-> 0]

\* add_timer(user_id, timer_id, description, end_time, job)
add_timer(at, user_id, timer_id, description, end_time, job, created_at) ==
    LET at1 == SetDefault(at, user_id)
    IN  [at1 EXCEPT ![user_id] =
            Put(at1[user_id], timer_id,
                [description |-> description, end_time |-> end_time,
                 job |-> job, created_at |-> created_at])]

\* for timer_id in user_timers: if remove_timer(user_id, timer_id): cancelled_count += 1
\* over the copied keys `ids`; acc carries the registry, the job queue, the count and
\* the jobs of the timers removed
RECURSIVE RemoveEach(_, _, _)
RemoveEach(acc, user_id, ids) ==
    IF ids = {} THEN acc
    ELSE LET timer_id == Min(ids)
             r        == remove_timer(acc, user_id, timer_id)
         IN  RemoveEach(
                 [at      |-> r.at,
                  jobs    |-> r.jobs,
                  cancelled_count |-> IF r.result THEN acc.cancelled_count + 1
                                      ELSE acc.cancelled_count,
                  removed |-> IF r.result THEN acc.removed \cup {r.job} ELSE acc.removed],
                 user_id, ids \ {timer_id})

\* mutant: the loop runs over the dict itself, not a copy, and ends when the first
\* removal changes the dict's size
CancelAll_NoCopy(at, js, user_id) ==
    LET live == DOMAIN get_user_timers(at, user_id)
    IN  RemoveEach([at |-> SetDefault(at, user_id), jobs |-> js,
                    cancelled_count |-> 0, removed |-> {}],
                   user_id, IF live = {} THEN {} ELSE {Min(live)})

\* the body of /cancel and of the cancel_all_timers button once timer_count > 0
CancelAll(at, js, user_id) ==
    LET snapshot == DOMAIN get_user_timers(at, user_id)     \* .copy()
    IN  RemoveEach([at |-> SetDefault(at, user_id), jobs |-> js,
                    cancelled_count |-> 0, removed |-> {}],
                   user_id, snapshot)

\* ------------------------------------------------------------------ view
\* mutant: sorted(..., reverse=True)
RECURSIVE SortedByCreatedAt_Descending(_, _)
SortedByCreatedAt_Descending(user_timers, ids) ==
    IF ids = {} THEN <<>>
    ELSE LET first == CHOOSE t \in ids :
                        \A o \in ids : user_timers[t].created_at >= user_timers[o].created_at
         IN  <<first>> \o SortedByCreatedAt_Descending(user_timers, ids \ {first})

\* sorted(user_timers.items(), key=lambda x: x[1]["created_at"]): the timer ids
RECURSIVE SortedByCreatedAt(_, _)
SortedByCreatedAt(user_timers, ids) ==
    IF ids = {} THEN <<>>
    ELSE LET first == CHOOSE t \in ids :
                        \A o \in ids : user_timers[t].created_at <= user_timers[o].created_at
         IN  <<first>> \o SortedByCreatedAt(user_timers, ids \ {first})

\* sorted_timers[start_idx:end_idx] for indices >= 0
Slice(seq, start_idx, end_idx) ==
    SubSeq(seq, start_idx + 1, IF end_idx < Len(seq) THEN end_idx ELSE Len(seq))

\* format_timer_list(user_id, page): the rows shown (timer ids) and the paging buttons
format_timer_list(at, user_id, page) ==
    LET user_timers == get_user_timers(at, user_id)
    IN  IF DOMAIN user_timers = {}
        THEN [total |-> 0, rows |-> <<>>, has_prev |-> FALSE, has_next |-> FALSE]
        ELSE LET sorted_timers == SortedByCreatedAt(user_timers, DOMAIN user_timers)
                 total_count   == Len(sorted_timers)
                 start_idx     == page * ITEMS_PER_PAGE
                 end_idx       == start_idx + ITEMS_PER_PAGE
             IN  [total    |-> total_count,
                  rows     |-> Slice(sorted_timers, start_idx, end_idx),
                  has_prev |-> page > 0,
                  has_next |-> end_idx < total_count]

\* ------------------------------------------------------------------ state
\* lastOp before any handler ran; every handler fills the fields it answers with
NoOp ==
    [op |-> "none", user_id |-> 0, text |-> <<>>, timer_id |-> 0, job |-> 0,
     result |-> "none",
     count |-> 0, removed |-> FALSE, was_cancelled |-> FALSE,
     page |-> 0, rows |-> <<>>, has_prev |-> FALSE, has_next |-> FALSE]

\* mutant: the hours left out of the delay
TotalSeconds_MinutesOnly(td) == td[2] * 60

\* total_seconds = hours * 3600 + minutes * 60
TotalSeconds(td) == td[1] * 3600 + td[2] * 60

\* description = f"{time_display} (до {end_time_str})"
Description(td, end_time) == <<td[1], td[2], end_time>>

\* the job run_once returns for delay TotalSeconds(td), carrying user_id and data
NewJob(user_id, timer_id, td, at_time) ==
    [user_id |-> user_id, timer_id |-> timer_id,
     description |-> Description(td, at_time + TotalSeconds(td)),
     delay |-> TotalSeconds(td), state |-> "scheduled"]

\* the timer ids a user holds or a job of the user still carries
IdsInUse(at, js, user_id) ==
    DOMAIN get_user_timers(at, user_id)
      \cup { js[j].timer_id : j \in { k \in DOMAIN js : js[k].user_id = user_id } }

\* str(uuid.uuid4())[:8]: a random token.  It is either new to the user (ids are
\* opaque, so the least unused number stands for every new token) or repeats one
\* in use; nothing in handle_time excludes the second.
NewTimerIds(at, js, user_id) ==
    LET used == IdsInUse(at, js, user_id)
    IN  { Min((1..(Cardinality(used) + 1)) \ used) } \cup (used \cap (1..MaxPickId))

Init ==
    /\ active_timers = EmptyDict
    /\ jobs = EmptyDict
    /\ now = 0
    /\ budget = MaxCreates
    /\ running = TRUE
    /\ lastOp = NoOp
    /\ cancelled = {}
    /\ time_str = <<>>
    /\ time_data = NotCalled

\* ------------------------------------------------------------------ handlers
\* mutant: the limit compared with > for >=
AtCapacity_OffByOne(timer_count) == timer_count > MAX_TIMERS_PER_USER

\* mutant: the limit check left out
AtCapacity_Never(timer_count) == FALSE

\* if timer_count >= max_timers
AtCapacity(timer_count) == timer_count >= MAX_TIMERS_PER_USER

\* timer_callback sends the message whatever remove_timer returned: timer_removed
\* is assigned and never read
SendsNotification(timer_removed) == TRUE

\* the queued jobs among `removed` whose timers an explicit cancel took away
StillQueued(js, removed) == { j \in removed : j \in DOMAIN js }

\* /start
Start(user_id) ==
    /\ running
    /\ active_timers' = SetDefault(active_timers, user_id)
    /\ lastOp' = [NoOp EXCEPT !.op = "start", !.user_id = user_id,
                              !.count = get_timer_count(active_timers, user_id)]
    /\ UNCHANGED <<jobs, now, budget, running, cancelled, time_str, time_data>>

\* /help
HelpCommand(user_id) ==
    /\ running
    /\ active_timers' = SetDefault(active_timers, user_id)
    /\ lastOp' = [NoOp EXCEPT !.op = "help", !.user_id = user_id,
                              !.count = get_timer_count(active_timers, user_id)]
    /\ UNCHANGED <<jobs, now, budget, running, cancelled, time_str, time_data>>

\* /status
StatusTimer(user_id) ==
    /\ running
    /\ active_timers' = SetDefault(active_timers, user_id)
    /\ lastOp' = [NoOp EXCEPT !.op = "status", !.user_id = user_id,
                              !.count = Cardinality(DOMAIN get_user_timers(active_timers, user_id)),
                              !.result = IF DOMAIN get_user_timers(active_timers, user_id) = {}
                                         THEN "no_timers" ELSE "listed"]
    /\ UNCHANGED <<jobs, now, budget, running, cancelled, time_str, time_data>>

\* a text message: handle_time
HandleTime(user_id, text) ==
    /\ running
    /\ LET at1         == SetDefault(active_timers, user_id)
           timer_count == get_timer_count(active_timers, user_id)
           td          == validate_time_format(text)
       IN  IF AtCapacity(timer_count)
           THEN /\ active_timers' = at1
                /\ lastOp' = [NoOp EXCEPT !.op = "handle_time", !.user_id = user_id,
                                          !.text = text, !.result = "capacity", !.count = timer_count]
                /\ UNCHANGED <<jobs, now, budget>>
           ELSE IF td = None
           THEN /\ active_timers' = at1
                /\ lastOp' = [NoOp EXCEPT !.op = "handle_time", !.user_id = user_id,
                                          !.text = text, !.result = "invalid", !.count = timer_count]
                /\ UNCHANGED <<jobs, now, budget>>
           ELSE /\ budget > 0
                /\ \E timer_id \in NewTimerIds(active_timers, jobs, user_id) :
                     LET job      == now + 1
                         end_time == now + TotalSeconds(td)
                     IN  /\ jobs' = Put(jobs, job, NewJob(user_id, timer_id, td, now))
                         /\ active_timers' =
                                add_timer(at1, user_id, timer_id,
                                          Description(td, end_time), end_time, job, now)
                         /\ lastOp' = [NoOp EXCEPT !.op = "handle_time",
                                          !.user_id = user_id, !.text = text,
                                          !.timer_id = timer_id,
                                          !.job = job, !.result = "started",
                                          !.count = get_timer_count(active_timers', user_id)]
                /\ now' = now + 1
                /\ budget' = budget - 1
    /\ UNCHANGED <<running, cancelled, time_str, time_data>>

\* button list_timers (page 0) or timers_page_<page>
ListTimers(user_id, page) ==
    /\ running
    /\ LET view == format_timer_list(active_timers, user_id, page)
       IN  /\ active_timers' = SetDefault(active_timers, user_id)
           /\ lastOp' = [NoOp EXCEPT !.op = "list_timers", !.user_id = user_id,
                                     !.page = page, !.count = view.total,
                                     !.rows = view.rows, !.has_prev = view.has_prev,
                                     !.has_next = view.has_next]
    /\ UNCHANGED <<jobs, now, budget, running, cancelled, time_str, time_data>>

\* button cancel_timer_<timer_id>
CancelTimerButton(user_id, timer_id) ==
    /\ running
    /\ LET r == remove_timer([at |-> active_timers, jobs |-> jobs], user_id, timer_id)
       IN  IF r.result
           THEN LET view == format_timer_list(r.at, user_id, 0)
                IN  /\ active_timers' = SetDefault(r.at, user_id)
                    /\ jobs' = r.jobs
                    /\ cancelled' = StillQueued(r.jobs, cancelled \cup {r.job})
                    /\ lastOp' = [NoOp EXCEPT !.op = "cancel_timer_button",
                                     !.user_id = user_id, !.timer_id = timer_id,
                                     !.job = r.job, !.result = "cancelled",
                                     !.removed = TRUE, !.count = view.total,
                                     !.rows = view.rows, !.has_prev = view.has_prev,
                                     !.has_next = view.has_next]
           ELSE /\ active_timers' = r.at
                /\ lastOp' = [NoOp EXCEPT !.op = "cancel_timer_button",
                                     !.user_id = user_id, !.timer_id = timer_id,
                                     !.result = "not_found"]
                /\ UNCHANGED <<jobs, cancelled>>
    /\ UNCHANGED <<now, budget, running, time_str, time_data>>

\* what /cancel and the cancel_all_timers button do to the registry and answer
CancelAllBody(op, user_id) ==
    LET timer_count == get_timer_count(active_timers, user_id)
    IN  IF timer_count > 0
        THEN LET r == CancelAll(active_timers, jobs, user_id)
             IN  /\ active_timers' = r.at
                 /\ jobs' = r.jobs
                 /\ cancelled' = StillQueued(r.jobs, cancelled \cup r.removed)
                 /\ lastOp' = [NoOp EXCEPT !.op = op, !.user_id = user_id,
                                  !.result = "cancelled_all", !.removed = TRUE,
                                  !.count = r.cancelled_count]
        ELSE /\ active_timers' = SetDefault(active_timers, user_id)
             /\ lastOp' = [NoOp EXCEPT !.op = op, !.user_id = user_id,
                                  !.result = "no_timers"]
             /\ UNCHANGED <<jobs, cancelled>>

\* /cancel: cancel_timer
CancelTimerCommand(user_id) ==
    /\ running
    /\ CancelAllBody("cancel_command", user_id)
    /\ UNCHANGED <<now, budget, running, time_str, time_data>>

\* button cancel_all_timers
CancelAllButton(user_id) ==
    /\ running
    /\ CancelAllBody("cancel_all_button", user_id)
    /\ UNCHANGED <<now, budget, running, time_str, time_data>>

\* button new_timer
NewTimerButton(user_id) ==
    /\ running
    /\ active_timers' = SetDefault(active_timers, user_id)
    /\ lastOp' = [NoOp EXCEPT !.op = "new_timer", !.user_id = user_id,
                      !.count = get_timer_count(active_timers, user_id),
                      !.result = IF AtCapacity(get_timer_count(active_timers, user_id))
                                 THEN "capacity" ELSE "prompt"]
    /\ UNCHANGED <<jobs, now, budget, running, cancelled, time_str, time_data>>

\* ------------------------------------------------------------------ expiry
\* job k comes due before job j: it was scheduled earlier with no longer a delay
DueBefore(js, k, j) == k < j /\ js[k].delay <= js[j].delay

\* the delay of a job run_once scheduled has passed: the scheduler takes the job
\* out of its store and queues timer_callback on the event loop
Expire(job) ==
    /\ running
    /\ job \in DOMAIN jobs
    /\ jobs[job].state = "scheduled"
    /\ Cardinality({ k \in DOMAIN jobs : jobs[k].state = "queued" }) < MaxQueued
    /\ \A k \in DOMAIN jobs : jobs[k].state = "scheduled" => ~DueBefore(jobs, k, job)
    /\ jobs' = [jobs EXCEPT ![job].state = "queued"]
    /\ lastOp' = [NoOp EXCEPT !.op = "expire", !.user_id = jobs[job].user_id,
                              !.timer_id = jobs[job].timer_id, !.job = job]
    /\ UNCHANGED <<active_timers, now, budget, running, cancelled, time_str, time_data>>

\* mutant: a callback whose send_message failed stays queued to run again
AfterCallback_RetryOnFailure(js, job, delivered) ==
    IF delivered THEN Pop(js, job) ELSE js

\* a run_once job is done once its callback returned: timer_callback catches what
\* send_message raises, so it returns whether or not the message was delivered
AfterCallback(js, job, delivered) == Pop(js, job)

\* timer_callback(context) of a queued job; `delivered` is whether send_message
\* succeeded (its exception is caught and logged)
TimerCallback(job, delivered) ==
    /\ running
    /\ job \in DOMAIN jobs
    /\ jobs[job].state = "queued"
    /\ LET user_id         == jobs[job].user_id
           timer_id        == jobs[job].timer_id
           r               == remove_timer([at |-> active_timers, jobs |-> jobs],
                                           user_id, timer_id)
           timer_removed   == r.result
           remaining_count == get_timer_count(r.at, user_id)
       IN  /\ active_timers' = SetDefault(r.at, user_id)
           /\ jobs' = AfterCallback(r.jobs, job, delivered)
           /\ cancelled' = StillQueued(jobs', cancelled)
           /\ lastOp' = [NoOp EXCEPT !.op = "timer_callback", !.user_id = user_id,
                            !.timer_id = timer_id, !.job = job,
                            !.result = IF ~SendsNotification(timer_removed) THEN "suppressed"
                                       ELSE IF delivered THEN "sent" ELSE "send_failed",
                            !.removed = timer_removed,
                            !.was_cancelled = job \in cancelled,
                            !.count = remaining_count]
    /\ UNCHANGED <<now, budget, running, time_str, time_data>>

\* total_timers = sum(len(user_timers) for user_timers in active_timers.values())
TotalTimers(at) ==
    LET RECURSIVE Sum(_)
        Sum(us) == IF us = {} THEN 0
                   ELSE LET u == CHOOSE x \in us : TRUE
                        IN  Cardinality(DOMAIN at[u]) + Sum(us \ {u})
    IN  Sum(DOMAIN at)

\* main(): run_polling returns (stop signal) and the finally block runs; the job
\* queue has stopped with the application, so no job is taken or run afterwards
Shutdown ==
    /\ running
    /\ running' = FALSE
    /\ active_timers' = IF TotalTimers(active_timers) > 0 THEN EmptyDict ELSE active_timers
    /\ jobs' = EmptyDict
    /\ cancelled' = {}
    /\ lastOp' = [NoOp EXCEPT !.op = "shutdown", !.count = TotalTimers(active_timers)]
    /\ UNCHANGED <<now, budget, time_str, time_data>>

\* ------------------------------------------------------------------ specifications
Pages == 0..MaxPage
PickIds == 1..MaxPickId
JobIds == 1..(MAX_TIMERS_PER_USER + MaxCreates)

Next ==
    \/ \E u \in Owners : Start(u)
    \/ \E u \in Owners : HelpCommand(u)
    \/ \E u \in Owners : StatusTimer(u)
    \/ \E u \in Owners : \E text \in TimeInputs : HandleTime(u, text)
    \/ \E u \in Owners : \E page \in Pages : ListTimers(u, page)
    \/ \E u \in Owners : \E t \in PickIds : CancelTimerButton(u, t)
    \/ \E u \in Owners : CancelTimerCommand(u)
    \/ \E u \in Owners : CancelAllButton(u)
    \/ \E u \in Owners : NewTimerButton(u)
    \/ \E j \in JobIds : Expire(j)
    \/ \E j \in JobIds : \E delivered \in BOOLEAN : TimerCallback(j, delivered)
    \/ Shutdown

\* the bot from its start: an empty registry
Spec == Init /\ [][Next]_vars

\* the bot with its job queue and event loop at work: a job whose delay has passed
\* is taken to run, and a queued callback is run
FairSpec ==
    /\ Spec
    /\ WF_vars(\E j \in JobIds : Expire(j))
    /\ WF_vars(\E j \in JobIds : \E delivered \in BOOLEAN : TimerCallback(j, delivered))

\* the text user 1 sent for each of the timers of BulkInit
BulkText == <<"9", "0">>

\* the bot after user 1 sent BulkText MAX_TIMERS_PER_USER - 1 times and nothing
\* else happened: the state MAX_TIMERS_PER_USER - 1 HandleTime steps lead to
BulkInit ==
    LET td == validate_time_format(BulkText)
        n  == MAX_TIMERS_PER_USER - 1
    IN  /\ active_timers =
              [u \in {1} |->
                  [t \in 1..n |->
                      [description |-> Description(td, (t - 1) + TotalSeconds(td)),
                       end_time    |-> (t - 1) + TotalSeconds(td),
                       job         |-> t,
                       created_at  |-> t - 1]]]
        /\ jobs = [j \in 1..n |-> NewJob(1, j, td, j - 1)]
        /\ now = n
        /\ budget = MaxCreates
        /\ running = TRUE
        /\ lastOp = NoOp
        /\ cancelled = {}
        /\ time_str = <<>>
        /\ time_data = NotCalled

\* the bot near a user's limit
BulkSpec == BulkInit /\ [][Next]_vars

\* validate_time_format called once on a text
ValidateTimeFormat ==
    /\ time_data = NotCalled
    /\ \E head \in Texts(MaxLen - 1), tail \in Texts(1) :
         \E s \in {head \o tail} \cup LetterTexts :
             /\ time_str' = s
             /\ time_data' = validate_time_format(s)
    /\ UNCHANGED <<active_timers, jobs, now, budget, running, lastOp, cancelled>>

ParseNext == ValidateTimeFormat

\* the parser alone, over every text of at most MaxLen characters
ParseSpec == Init /\ [][ParseNext]_vars

\* ================================================================== claims
\* a 'timer fired' message was handed to send_message by the last step
Emitted(op) == op.op = "timer_callback" /\ op.result \in {"sent", "send_failed"}

\* the last step was an explicit cancel-all (the /cancel command or the button)
IsCancelAll(op) == op.op \in {"cancel_command", "cancel_all_button"}

\* C1: when an explicit cancel and the expiry callback of the same timer interleave,
\* exactly one of them is observed: by the time the callback has run, either an
\* explicit cancel returned True for the timer or a 'timer fired' message was sent,
\* never both and never neither.
C1_CancelXorFired ==
    lastOp.op = "timer_callback" => (lastOp.was_cancelled # Emitted(lastOp))

\* C2: every timer created yields at most one 'timer fired' message, and one that is
\* never cancelled yields exactly one: so a job leaves the job queue only by running
\* its callback and sending the message (once), by an explicit cancel of its timer,
\* or at shutdown.
C2_OneNotificationPerTimer ==
    [][\A j \in DOMAIN jobs :
          j \notin DOMAIN jobs' =>
              \/ Emitted(lastOp') /\ lastOp'.job = j
              \/ lastOp'.op = "cancel_timer_button" /\ lastOp'.job = j
              \/ IsCancelAll(lastOp') /\ lastOp'.user_id = jobs[j].user_id
              \/ ~running']_vars

\* C3: no user ever holds more than MAX_TIMERS_PER_USER timers in active_timers.
C3_AtMostMaxTimers ==
    \A u \in DOMAIN active_timers :
        Cardinality(DOMAIN active_timers[u]) <= MAX_TIMERS_PER_USER

\* C3 witness: a create brought a user to exactly MAX_TIMERS_PER_USER timers
C3_Witness ==
    /\ lastOp.op = "handle_time" /\ lastOp.result = "started"
    /\ lastOp.user_id \in DOMAIN active_timers
    /\ Cardinality(DOMAIN active_timers[lastOp.user_id]) = MAX_TIMERS_PER_USER

\* C4: a create request of a user who holds MAX_TIMERS_PER_USER timers is answered
\* with the capacity message; the user's timers stay as they are (still
\* MAX_TIMERS_PER_USER of them) and no job is scheduled.
C4_CreateAtCapacityRejected ==
    [][\A u \in Owners :
          ( /\ lastOp'.op = "handle_time" /\ lastOp'.user_id = u
            /\ get_timer_count(active_timers, u) = MAX_TIMERS_PER_USER )
          => /\ lastOp'.result = "capacity"
             /\ active_timers' = active_timers
             /\ get_timer_count(active_timers', u) = MAX_TIMERS_PER_USER
             /\ jobs' = jobs]_vars

\* C4 witness: a create request was refused at MAX_TIMERS_PER_USER timers
C4_Witness ==
    /\ lastOp.op = "handle_time" /\ lastOp.result = "capacity"
    /\ lastOp.count = MAX_TIMERS_PER_USER
    /\ get_timer_count(active_timers, lastOp.user_id) = MAX_TIMERS_PER_USER

\* C5: a job whose callback has neither run nor been cancelled (a job of the job
\* queue) is stored with a timer of exactly one user, and every stored timer's job
\* is such a job: timer and live handle exist together.
C5_LiveHandleIffStored ==
    /\ \A j \in DOMAIN jobs :
          Cardinality({ u \in DOMAIN active_timers :
                          \E t \in DOMAIN active_timers[u] :
                              active_timers[u][t].job = j }) = 1
    /\ \A u \in DOMAIN active_timers : \A t \in DOMAIN active_timers[u] :
          active_timers[u][t].job \in DOMAIN jobs

\* C6: active_timers never maps a user to an empty dict.
C6_NoEmptyOwnerEntry ==
    \A u \in DOMAIN active_timers : DOMAIN active_timers[u] # {}

\* C7: remove_timer(u, t) called twice on a stored timer returns True and deletes
\* it, then returns False; the second call leaves the registry as the first left
\* it, so a user whose last timer went keeps having no entry.
C7_RemoveTwice ==
    \A u \in DOMAIN active_timers : \A t \in DOMAIN active_timers[u] :
        LET r1 == remove_timer([at |-> active_timers, jobs |-> jobs], u, t)
            r2 == remove_timer([at |-> r1.at, jobs |-> r1.jobs], u, t)
        IN  /\ r1.result
            /\ t \notin DOMAIN get_user_timers(r1.at, u)
            /\ ~r2.result
            /\ (u \notin DOMAIN r1.at => u \notin DOMAIN r2.at)
            /\ r2.at = r1.at

\* C8: cancel-all of a user who holds n timers (0 <= n <= MAX_TIMERS_PER_USER)
\* answers with n cancelled timers (for n = 0: that there is none), asks the job
\* queue to remove the job of each of them, so that none of them still waits there,
\* and leaves the user with no timer.
C8_CancelAllRemovesAll ==
    [][\A u \in Owners :
          (IsCancelAll(lastOp') /\ lastOp'.user_id = u)
          => LET n == get_timer_count(active_timers, u)
             IN  /\ n <= MAX_TIMERS_PER_USER
                 /\ lastOp'.count = n
                 /\ lastOp'.result = IF n > 0 THEN "cancelled_all" ELSE "no_timers"
                 /\ get_timer_count(active_timers', u) = 0
                 /\ \A t \in DOMAIN get_user_timers(active_timers, u) :
                       LET j == active_timers[u][t].job
                       IN  /\ ~(j \in DOMAIN jobs' /\ jobs'[j].state = "scheduled")
                           /\ (j \in DOMAIN jobs' => j \in cancelled')]_vars

\* C8 witness: cancel-all answered MAX_TIMERS_PER_USER cancelled timers
C8_Witness ==
    /\ IsCancelAll(lastOp) /\ lastOp.result = "cancelled_all"
    /\ lastOp.count = MAX_TIMERS_PER_USER
    /\ get_timer_count(active_timers, lastOp.user_id) = 0

\* the number a string of one to four digits writes, digit by digit
DigitAt(s, i) == DigitValue(s[i])
Value3(s) ==
    IF Len(s) = 1 THEN DigitAt(s, 1)
    ELSE IF Len(s) = 2 THEN 10 * DigitAt(s, 1) + DigitAt(s, 2)
    ELSE 100 * DigitAt(s, 1) + 10 * DigitAt(s, 2) + DigitAt(s, 3)

\* C9: on a string of one to three digits of value m, validate_time_format returns
\* (m div 60, m mod 60) when 1 <= m <= 999 (leading zeros allowed) and None when
\* m = 0.
C9_MinutesParsed ==
    ( /\ time_data # NotCalled
      /\ Len(time_str) \in 1..3
      /\ \A i \in 1..Len(time_str) : time_str[i] \in Digits )
    => LET m == Value3(time_str)
       IN  time_data = IF m >= 1 THEN <<m \div 60, m % 60>> ELSE None

\* C9 witness: "007" parsed to (0, 7)
C9_Witness == time_str = <<"0", "0", "7">> /\ time_data = <<0, 7>>

\* C10: on a string HHMM of four digits, validate_time_format returns (HH, MM)
\* exactly when HH <= 23, MM <= 59 and not both are zero, and None otherwise.
C10_HHMMParsed ==
    ( /\ time_data # NotCalled
      /\ Len(time_str) = 4
      /\ \A i \in 1..4 : time_str[i] \in Digits )
    => LET hh == 10 * DigitAt(time_str, 1) + DigitAt(time_str, 2)
           mm == 10 * DigitAt(time_str, 3) + DigitAt(time_str, 4)
       IN  time_data = IF hh <= 23 /\ mm <= 59 /\ ~(hh = 0 /\ mm = 0)
                       THEN <<hh, mm>> ELSE None

\* C10 witness: "2359" parsed to (23, 59)
C10_Witness == time_str = <<"2", "3", "5", "9">> /\ time_data = <<23, 59>>

\* C11: validate_time_format returns None (never a duration) on each of the texts
\* "0", "1000", "abcd" and "".
C11_NamedInputsRejected ==
    ( /\ time_data # NotCalled
      /\ time_str \in { <<"0">>, <<"1", "0", "0", "0">>, <<"a", "b", "c", "d">>, <<>> } )
    => time_data = None

\* C11 as amended: validate_time_format returns None on "0", "abcd" and "", and
\* reads "1000" as HHMM: (10, 0).
C11_NamedInputsAmended ==
    time_data # NotCalled
    => /\ time_str \in { <<"0">>, <<"a", "b", "c", "d">>, <<>> } => time_data = None
       /\ time_str = <<"1", "0", "0", "0">> => time_data = <<10, 0>>

\* C11 witness: "1000" was parsed, to (10, 0)
C11_Witness == time_str = <<"1", "0", "0", "0">> /\ time_data = <<10, 0>>

\* the smaller of two numbers
Smaller(a, b) == IF a <= b THEN a ELSE b
\* the larger of two numbers
Larger(a, b) == IF a >= b THEN a ELSE b

\* C12: a list of the timers of a user who holds `total` of them (zero included),
\* asked for at any page >= 0, shows min(5, max(0, total - 5*page)) rows, offers
\* 'previous' exactly when page > 0 and 'next' exactly when (page+1)*5 < total.
C12_ViewPaging ==
    lastOp.op = "list_timers"
    => LET total == get_timer_count(active_timers, lastOp.user_id)
           page  == lastOp.page
       IN  /\ Len(lastOp.rows) = Smaller(5, Larger(0, total - 5 * page))
           /\ lastOp.has_prev = (page > 0)
           /\ lastOp.has_next = ((page + 1) * 5 < total)

\* C13: a step taken for user a (a create, a cancel of one timer id, a cancel-all,
\* a list, a count, the expiry of one of a's jobs or its callback) leaves every
\* other user b with the same registry entry and the same jobs, also when a and b
\* hold timers with the same id.
C13_OwnersPartitioned ==
    [][\A a \in Owners :
          lastOp'.user_id = a
          => \A b \in Owners \ {a} :
                /\ (b \in DOMAIN active_timers) = (b \in DOMAIN active_timers')
                /\ (b \in DOMAIN active_timers => active_timers'[b] = active_timers[b])
                /\ { j \in DOMAIN jobs : jobs[j].user_id = b }
                     = { j \in DOMAIN jobs' : jobs'[j].user_id = b }
                /\ \A j \in DOMAIN jobs :
                       jobs[j].user_id = b => jobs'[j] = jobs[j]]_vars

\* C13 witness: a user cancelled timer id t while another user holds a timer with
\* the same id t
C13_Witness ==
    /\ lastOp.op = "cancel_timer_button" /\ lastOp.result = "cancelled"
    /\ \E b \in DOMAIN active_timers :
          b # lastOp.user_id /\ lastOp.timer_id \in DOMAIN active_timers[b]

\* C14: when send_message fails in timer_callback, the callback still returns: the
\* bot keeps running, the timer of the job is not in the registry, every other
\* timer is as before and none is added, the job is gone from the job queue (no
\* second try) and no job is scheduled.
C14_DeliveryFailureContained ==
    [][(lastOp'.op = "timer_callback" /\ lastOp'.result = "send_failed")
       => LET u == lastOp'.user_id
              t == lastOp'.timer_id
          IN  /\ running'
              /\ t \notin DOMAIN get_user_timers(active_timers', u)
              /\ \A v \in Owners :
                    /\ DOMAIN get_user_timers(active_timers', v)
                          \subseteq DOMAIN get_user_timers(active_timers, v)
                    /\ \A x \in DOMAIN get_user_timers(active_timers, v) :
                          (v # u \/ x # t)
                          => /\ x \in DOMAIN get_user_timers(active_timers', v)
                             /\ active_timers'[v][x] = active_timers[v][x]
              /\ lastOp'.job \notin DOMAIN jobs'
              /\ DOMAIN jobs' \subseteq DOMAIN jobs]_vars

\* C14 witness: a callback removed its timer, failed to send, and other timers are
\* still stored
C14_Witness ==
    /\ lastOp.op = "timer_callback" /\ lastOp.result = "send_failed"
    /\ lastOp.removed
    /\ TotalTimers(active_timers) > 0

\* C15: once main() has left run_polling and run its finally block, active_timers
\* holds no timer and no user entry, and no job is left to send a notification.
C15_ShutdownClears ==
    ~running => (active_timers = EmptyDict /\ jobs = EmptyDict)

\* C16: a create that succeeds stores the timer under an id the user does not hold
\* yet: the user's count grows by exactly 1 and every timer the user held is kept
\* as it was.
C16_FreshIdOnCreate ==
    [][\A u \in Owners :
          (lastOp'.op = "handle_time" /\ lastOp'.result = "started" /\ lastOp'.user_id = u)
          => /\ lastOp'.timer_id \notin DOMAIN get_user_timers(active_timers, u)
             /\ get_timer_count(active_timers', u) = get_timer_count(active_timers, u) + 1
             /\ \A t \in DOMAIN get_user_timers(active_timers, u) :
                   /\ t \in DOMAIN active_timers'[u]
                   /\ active_timers'[u][t] = active_timers[u][t]]_vars

\* the durations the texts of TimeInputs stand for: "90" is (1, 30), "0200" is
\* (2, 0), "0000" is rejected
ExpectedDuration(text) ==
    CASE text = <<"9", "0">> -> <<1, 30>>
      [] text = <<"0", "2", "0", "0">> -> <<2, 0>>
      [] OTHER -> None

\* C17: a create request (of a user below MAX_TIMERS_PER_USER) whose text stands
\* for (h, m) schedules exactly one job, with delay h*3600 + m*60, and writes
\* exactly one registry entry, the user's timer holding that job; a request whose
\* text is rejected schedules no job and leaves the user's timers as they were.
C17_CreateStoresOne ==
    [][\A u \in Owners :
          ( /\ lastOp'.op = "handle_time" /\ lastOp'.user_id = u
            /\ get_timer_count(active_timers, u) < MAX_TIMERS_PER_USER )
          => LET hm  == ExpectedDuration(lastOp'.text)
                 old == get_user_timers(active_timers, u)
                 new == get_user_timers(active_timers', u)
                 job == lastOp'.job
             IN  IF hm # None
                 THEN /\ lastOp'.result = "started"
                      /\ job \notin DOMAIN jobs
                      /\ DOMAIN jobs' = DOMAIN jobs \cup {job}
                      /\ \A k \in DOMAIN jobs : jobs'[k] = jobs[k]
                      /\ jobs'[job].delay = hm[1] * 3600 + hm[2] * 60
                      /\ jobs'[job].user_id = u
                      /\ jobs'[job].state = "scheduled"
                      /\ { t \in DOMAIN new : t \notin DOMAIN old \/ new[t] # old[t] }
                            = {lastOp'.timer_id}
                      /\ DOMAIN old \subseteq DOMAIN new
                      /\ new[lastOp'.timer_id].job = job
                      /\ new[lastOp'.timer_id].end_time
                            = now + hm[1] * 3600 + hm[2] * 60
                 ELSE /\ lastOp'.result = "invalid"
                      /\ jobs' = jobs
                      /\ new = old]_vars

\* C17 witness: "0200" was accepted and its job waits with a delay of 7200 seconds
C17_Witness ==
    /\ lastOp.op = "handle_time" /\ lastOp.result = "started"
    /\ lastOp.text = <<"0", "2", "0", "0">>
    /\ lastOp.job \in DOMAIN jobs
    /\ jobs[lastOp.job].delay = 7200

\* C18: a timer_callback whose remove_timer returned False sends no message.
C18_NoSendWhenNotRemoved ==
    (lastOp.op = "timer_callback" /\ ~lastOp.removed) => lastOp.result = "suppressed"

\* C19: remove_timer on a stored timer whose job no longer waits in the job queue
\* (it was taken to run, or removed) returns True, deletes the timer, deletes the
\* user's entry if that was the last timer, and leaves the job queue alone.
C19_RemoveAfterFired ==
    \A u \in DOMAIN active_timers : \A t \in DOMAIN active_timers[u] :
        LET job == active_timers[u][t].job
            r   == remove_timer([at |-> active_timers, jobs |-> jobs], u, t)
        IN  ~(job \in DOMAIN jobs /\ jobs[job].state = "scheduled")
            => /\ r.result
               /\ IF DOMAIN active_timers[u] = {t}
                  THEN u \notin DOMAIN r.at
                  ELSE /\ u \in DOMAIN r.at
                       /\ r.at[u] = Pop(active_timers[u], t)
               /\ \A v \in DOMAIN active_timers \ {u} :
                     v \in DOMAIN r.at /\ r.at[v] = active_timers[v]
               /\ r.jobs = jobs

\* C19 witness: a cancel button removed a timer whose job had already been taken
\* to run (the job is still queued)
C19_Witness ==
    /\ lastOp.op = "cancel_timer_button" /\ lastOp.result = "cancelled"
    /\ lastOp.job \in DOMAIN jobs
    /\ jobs[lastOp.job].state = "queued"

\* what the parser returns on texts of the wrong format: empty, a non-digit, more
\* than 4 characters
InvalidFormatResults ==
    { validate_time_format(s) :
        s \in { <<>>, <<"a">>, <<"1", "2", "3", "4", "5">> } }

\* C20: the caller can tell a rejection of an all-digit text of length 1-4 (out of
\* range) from a rejection for the format: the parser's result on the first is
\* none of its results on the second.
C20_RejectionKindsDiffer ==
    ( /\ time_data # NotCalled
      /\ Len(time_str) \in 1..4
      /\ \A i \in 1..Len(time_str) : time_str[i] \in Digits
      /\ ~(Len(time_data) = 2) )
    => time_data \notin InvalidFormatResults

\* the handlers that only read the registry: the counts of /start, /help and the
\* new_timer button, /status, and the list
ReadOps == {"start", "help", "new_timer", "status", "list_timers"}

\* C21: a count, a status or a list leaves active_timers, its set of user keys
\* included, exactly as it was, whether or not the user has an entry.
C21_ReadsArePure ==
    [][lastOp'.op \in ReadOps => active_timers' = active_timers]_vars

\* the number of the user's timers created before timer t (jobs are numbered in
\* the order of the run_once calls)
Rank(user_timers, t) ==
    Cardinality({ x \in DOMAIN user_timers : user_timers[x].job < user_timers[t].job })

\* C22: the rows of a list are the user's timers in the order of their creation:
\* row i of page p is the timer with 5p + i - 1 timers created before it, and the
\* page shows all the timers at the positions 5p .. 5p + 4.
C22_RowsInCreationOrder ==
    lastOp.op = "list_timers"
    => LET user_timers == get_user_timers(active_timers, lastOp.user_id)
           rows        == lastOp.rows
           p           == lastOp.page
       IN  /\ \A i \in 1..Len(rows) :
                 /\ rows[i] \in DOMAIN user_timers
                 /\ Rank(user_timers, rows[i]) = 5 * p + i - 1
           /\ Len(rows) = Cardinality({ t \in DOMAIN user_timers :
                                          Rank(user_timers, t) \in (5 * p)..(5 * p + 4) })

\* C22 witness: page 1 of a user with 7 timers was listed, with 2 rows
C22_Witness ==
    /\ lastOp.op = "list_timers" /\ lastOp.page = 1
    /\ lastOp.count = 7
    /\ Len(lastOp.rows) = 2

\* C23: the remaining count a 'timer fired' message carries is the number of
\* timers the user holds once the callback's remove_timer has run, which is the
\* user's count before the callback minus one.
C23_RemainingCount ==
    [][Emitted(lastOp')
       => /\ lastOp'.count = get_timer_count(active_timers', lastOp'.user_id)
          /\ lastOp'.count = get_timer_count(active_timers, lastOp'.user_id) - 1]_vars

\* C24: a text the parser rejects is answered with the format error, whatever the
\* number of timers the user holds, MAX_TIMERS_PER_USER included.
C24_ParseBeforeCapacity ==
    (lastOp.op = "handle_time" /\ validate_time_format(lastOp.text) = None)
    => lastOp.result = "invalid"

\* C25: handlers run one at a time on the registry.  A create that passed the
\* capacity check stores its timer on the count it checked, so the count it checked
\* was below MAX_TIMERS_PER_USER and the count it leaves is within it; the state a
\* cancel-all leaves holds none of the user's timers, so no later step meets a part
\* of them; and a count, status or list answers with the number of timers of the
\* state it ran in and changes no timer.
C25_HandlersSerialized ==
    [][\A u \in Owners :
          lastOp'.user_id = u
          => LET before == get_timer_count(active_timers, u)
                 after  == get_timer_count(active_timers', u)
             IN  /\ (lastOp'.op = "handle_time" /\ lastOp'.result = "started")
                    => (before < MAX_TIMERS_PER_USER /\ after <= MAX_TIMERS_PER_USER
                        /\ after <= before + 1)
                 /\ IsCancelAll(lastOp') => after = 0
                 /\ lastOp'.op \in ReadOps
                    => /\ lastOp'.count = before
                       /\ get_user_timers(active_timers', u)
                             = get_user_timers(active_timers, u)]_vars

\* C25 witness: of two creates of a user at MAX_TIMERS_PER_USER - 1 timers the
\* first was stored and the second was refused
C25_Witness ==
    /\ lastOp.op = "handle_time" /\ lastOp.result = "capacity"
    /\ budget = MaxCreates - 1
    /\ now = MAX_TIMERS_PER_USER

\* the timer ids of the behaviours of Spec
TimerIds == 1..MaxCreates

\* C26: every timer stored in active_timers leaves it at some later time, when
\* due jobs are taken to run and queued callbacks are run.
C26_TimerEventuallyLeaves ==
    \A u \in Owners : \A t \in TimerIds :
        (t \in DOMAIN get_user_timers(active_timers, u))
            ~> (t \notin DOMAIN get_user_timers(active_timers, u))

\* C26 witness: a callback whose message was not delivered took its timer out of
\* the registry
C26_Witness ==
    /\ lastOp.op = "timer_callback" /\ lastOp.result = "send_failed"
    /\ lastOp.removed
    /\ lastOp.timer_id \notin DOMAIN get_user_timers(active_timers, lastOp.user_id)

\* C27: a remove_timer(u, t), from the cancel button or from the callback of a job,
\* leaves every other timer of u as it was (description, end_time, created_at, job)
\* and leaves the job of every such timer in the job queue as it was.
C27_RemoveTouchesOneTimer ==
    [][\A u \in Owners :
          (lastOp'.user_id = u /\ lastOp'.op \in {"cancel_timer_button", "timer_callback"})
          => \A x \in DOMAIN get_user_timers(active_timers, u) \ {lastOp'.timer_id} :
                /\ x \in DOMAIN get_user_timers(active_timers', u)
                /\ active_timers'[u][x] = active_timers[u][x]
                /\ LET j == active_timers[u][x].job
                   IN  j \in DOMAIN jobs => (j \in DOMAIN jobs' /\ jobs'[j] = jobs[j])]_vars

\* C27 witness: a cancel button removed one timer of a user whose other timer is
\* stored with its job still waiting
C27_Witness ==
    /\ lastOp.op = "cancel_timer_button" /\ lastOp.result = "cancelled"
    /\ \E x \in DOMAIN get_user_timers(active_timers, lastOp.user_id) :
          LET j == active_timers[lastOp.user_id][x].job
          IN  j \in DOMAIN jobs /\ jobs[j].state = "scheduled"

====
